---- MODULE Spec2Model ----
(***************************************************************************)
(* State-machine model of ProjectChatPage.handleSendMessage, the streaming *)
(* send of client/src/components/chat/MessageItem.tsx (lines 106-389).     *)
(*                                                                         *)
(* Text is a sequence of atoms.  An atom is a string standing for a run of *)
(* characters that the code never looks inside before the buffer has been  *)
(* reassembled: the newline "\n", the space " ", the line prefixes         *)
(* "event: " and "data: ", an event-type word, or a whole JSON text.  The  *)
(* body arrives as bytes; the atoms above are single-byte text, and one    *)
(* two-byte character (lead byte, continuation byte) stands for the        *)
(* multi-byte characters that a chunk boundary may cut.                    *)
(* String concatenation is \o, "" is << >>.  One action is the code that   *)
(* runs between two awaits of the async function (JavaScript runs it       *)
(* without interleaving); state setters are modelled as assignments, also  *)
(* after the page has been unmounted.                                      *)
(***************************************************************************)
EXTENDS Integers, Sequences, FiniteSets, TLC

VARIABLES
    currentChatData,     \* useState, line 109: NoChat (null) or [id, messages]
    isLoadingChatData,   \* useState, line 112
    userId,              \* useAuth, line 130: NoUser (null) or a user id
    sendMessageError,    \* useState, line 114: NoError (null) or a message
    isMessageSending,    \* useState, line 115
    isStreaming,         \* useState, line 118
    streamingMessage,    \* useState, line 119
    agentStatus,         \* useState, line 120
    abortControllerRef,  \* useRef, line 123: 0 (null) or the slot owning the controller
    mounted,             \* the page component is mounted
    now,                 \* the last reading of Date.now(); 0 before the first
    calls,               \* invocations of handleSendMessage so far
    requests,            \* fetch calls issued so far
    sess,                \* per invocation: position and locals of handleSendMessage
    hist                 \* per invocation: what the invocation has observed and done

vars == << currentChatData, isLoadingChatData, userId, sendMessageError,
           isMessageSending, isStreaming, streamingMessage, agentStatus,
           abortControllerRef, mounted, now, calls, requests, sess, hist >>

----------------------------------------------------------------------------
(* Bounds *)
MaxSends == 2        \* invocations of handleSendMessage in one behaviour
MaxSlots == 2        \* invocations that may be outstanding at once
MaxChunk == 8        \* longest chunk, in bytes, one reader.read() delivers
MaxRaw   == 5        \* longest stream drawn from RawAlphabet

Slots == 1..MaxSlots

----------------------------------------------------------------------------
(* Atoms of the wire format *)
NL == "\n"
SP == " "
EV == "event: "
DA == "data: "

NoChat  == [id |-> "null", messages |-> << >>]
NoUser  == "null"
NoError == << >>

Whitespace == {NL, SP}

\* the bytes of a two-byte character, the character, and U+FFFD
LeadByte    == "0xC3"
ContByte    == "0xA9"
TwoByteChar == "U+00E9"
Replacement == "U+FFFD"

----------------------------------------------------------------------------
(* decoder.decode(value, { stream: true }), line 205 *)

\* the decoder at one byte after another; text is what it has put out
RECURSIVE DecodeFrom(_, _, _)
DecodeFrom(pending, bytes, text) ==
    IF bytes = << >> THEN [text |-> text, pending |-> pending]
    ELSE LET b == Head(bytes)
         IN  IF pending
             THEN IF b = ContByte
                  THEN DecodeFrom(FALSE, Tail(bytes), Append(text, TwoByteChar))
                  ELSE DecodeFrom(FALSE, bytes, Append(text, Replacement))
             ELSE IF b = LeadByte THEN DecodeFrom(TRUE, Tail(bytes), text)
             ELSE IF b = ContByte
                  THEN DecodeFrom(FALSE, Tail(bytes), Append(text, Replacement))
             ELSE DecodeFrom(FALSE, Tail(bytes), Append(text, b))

\* pending: the decoder holds a lead byte from an earlier chunk.  Returns the
\* text decoded from bytes and whether a lead byte is held back.
Decode(pending, bytes) == DecodeFrom(pending, bytes, << >>)

----------------------------------------------------------------------------
(* String helpers, on sequences of atoms *)

\* s.startsWith(p)
StartsWith(s, p) ==
    /\ Len(s) >= Len(p)
    /\ SubSeq(s, 1, Len(p)) = p

\* s.slice(n)
Slice(s, n) == SubSeq(s, n + 1, Len(s))

RECURSIVE TrimStart(_)
TrimStart(s) ==
    IF s # << >> /\ Head(s) \in Whitespace THEN TrimStart(Tail(s)) ELSE s

RECURSIVE TrimEnd(_)
TrimEnd(s) ==
    IF s # << >> /\ s[Len(s)] \in Whitespace
    THEN TrimEnd(SubSeq(s, 1, Len(s) - 1)) ELSE s

\* s.trim()
Trim(s) == TrimEnd(TrimStart(s))

\* s.indexOf(sep, i), 1-based; 0 when sep does not occur at or after i
RECURSIVE IndexFrom(_, _, _)
IndexFrom(s, sep, i) ==
    IF i + Len(sep) - 1 > Len(s) THEN 0
    ELSE IF SubSeq(s, i, i + Len(sep) - 1) = sep THEN i
    ELSE IndexFrom(s, sep, i + 1)

\* s.indexOf(sep)
IndexOf(s, sep) == IndexFrom(s, sep, 1)

\* s.split(sep): the pieces between the leftmost non-overlapping separators
RECURSIVE Split(_, _)
Split(s, sep) ==
    LET i == IndexOf(s, sep)
    IN  IF i = 0 THEN << s >>
        ELSE << SubSeq(s, 1, i - 1) >> \o Split(Slice(s, i + Len(sep) - 1), sep)

\* arr without its last element (what is left after arr.pop())
Front(arr) == SubSeq(arr, 1, Len(arr) - 1)

----------------------------------------------------------------------------
(* JSON texts the backend may put on a data line, and JSON.parse *)

ContentHi     == "{\"content\":\"Hi\"}"
ContentThere  == "{\"content\":\" there\"}"
StatusThink   == "{\"status\":\"thinking\"}"
MessageRate   == "{\"message\":\"rate limited\"}"
EmptyObject   == "{}"
BrokenJSON    == "{\"content\":"

\* the `done` payload of the k-th send: both persisted messages
DoneText(k) ==
    CASE k = 1 -> "{\"userMessage\":{\"id\":\"u1\"},\"aiMessage\":{\"id\":\"a1\"}}"
      [] k = 2 -> "{\"userMessage\":{\"id\":\"u2\"},\"aiMessage\":{\"id\":\"a2\"}}"
      [] k = 3 -> "{\"userMessage\":{\"id\":\"u3\"},\"aiMessage\":{\"id\":\"a3\"}}"
      [] OTHER -> "{\"userMessage\":{\"id\":\"u4\"},\"aiMessage\":{\"id\":\"a4\"}}"

\* a `done` payload that lacks aiMessage
DoneNoAiText(k) ==
    CASE k = 1 -> "{\"userMessage\":{\"id\":\"u1\"}}"
      [] k = 2 -> "{\"userMessage\":{\"id\":\"u2\"}}"
      [] k = 3 -> "{\"userMessage\":{\"id\":\"u3\"}}"
      [] OTHER -> "{\"userMessage\":{\"id\":\"u4\"}}"

SendNumbers == 1..4

\* interface Message, lines 4-15 (the fields the send logic reads or writes)
UserMsg(k) == [id |-> << "u", k >>, role |-> "user", content |-> "Hello"]
AiMsg(k)   == [id |-> << "a", k >>, role |-> "assistant", content |-> "Hi there"]

\* JSON.parse(dataStr): [ok |-> TRUE, value |-> the object] or a SyntaxError.
\* An object is a function from its keys to their values.
JSONparse(dataStr) ==
    LET text == Trim(dataStr)
        t    == text[1]
        syntaxError == [ok |-> FALSE, value |-> << >>]
    IN  IF Len(text) # 1 THEN syntaxError
        ELSE IF t = ContentHi    THEN [ok |-> TRUE, value |-> [content |-> << "Hi" >>]]
        ELSE IF t = ContentThere THEN [ok |-> TRUE, value |-> [content |-> << " there" >>]]
        ELSE IF t = StatusThink  THEN [ok |-> TRUE, value |-> [status |-> "thinking"]]
        ELSE IF t = MessageRate  THEN [ok |-> TRUE, value |-> [message |-> << "rate limited" >>]]
        ELSE IF t = EmptyObject  THEN [ok |-> TRUE, value |-> << >>]
        ELSE IF \E k \in SendNumbers : t = DoneText(k)
             THEN LET k == CHOOSE j \in SendNumbers : t = DoneText(j)
                  IN  [ok |-> TRUE,
                       value |-> [userMessage |-> UserMsg(k), aiMessage |-> AiMsg(k)]]
        ELSE IF \E k \in SendNumbers : t = DoneNoAiText(k)
             THEN LET k == CHOOSE j \in SendNumbers : t = DoneNoAiText(j)
                  IN  [ok |-> TRUE, value |-> [userMessage |-> UserMsg(k)]]
        ELSE syntaxError

\* data.key is present (a missing key reads as undefined, which is falsy)
Has(data, key) == key \in DOMAIN data

----------------------------------------------------------------------------
(* The event parser and the dispatch of one block, lines 212-259 *)

\* `temp-${Date.now()}`, line 155
TempId(t) == << "temp-", t >>

\* msg.id.startsWith("temp-"), line 276
IsTemp(msg) == msg.id[1] = "temp-"

\* the scan of lines 219-225 leaving a value alone once it is set
RECURSIVE ScanLinesKeepsFirst(_, _, _)
ScanLinesKeepsFirst(lines, eventType, dataStr) ==
    IF lines = << >> THEN [eventType |-> eventType, dataStr |-> dataStr]
    ELSE LET line == Head(lines)
         IN  IF StartsWith(line, << EV >>)
             THEN ScanLinesKeepsFirst(Tail(lines),
                      IF eventType = << >> THEN Trim(Slice(line, 1)) ELSE eventType,
                      dataStr)
             ELSE IF StartsWith(line, << DA >>)
             THEN ScanLinesKeepsFirst(Tail(lines), eventType,
                      IF dataStr = << >> THEN Slice(line, 1) ELSE dataStr)
             ELSE ScanLinesKeepsFirst(Tail(lines), eventType, dataStr)

\* lines 219-225: the scan of the block's lines; a later matching line
\* overwrites what an earlier one set
RECURSIVE ScanLines(_, _, _)
ScanLines(lines, eventType, dataStr) ==
    IF lines = << >> THEN [eventType |-> eventType, dataStr |-> dataStr]
    ELSE LET line == Head(lines)
         IN  IF StartsWith(line, << EV >>)
             THEN ScanLines(Tail(lines), Trim(Slice(line, 1)), dataStr)
             ELSE IF StartsWith(line, << DA >>)
             THEN ScanLines(Tail(lines), eventType, Slice(line, 1))
             ELSE ScanLines(Tail(lines), eventType, dataStr)

\* lines 215-225
ParseBlock(eventBlock) == ScanLines(Split(eventBlock, << NL >>), << >>, << >>)

\* Finalize without the filter of lines 245-247
FinalizeKeepsOptimistic(prev, data, optimisticId) ==
    IF prev = NoChat THEN prev
    ELSE IF Has(data, "aiMessage") /\ Has(data, "userMessage")
    THEN [prev EXCEPT !.messages = @ \o << data.userMessage, data.aiMessage >>]
    ELSE prev

\* Finalize with the filter of lines 245-247 testing the role
FinalizeDropsUsers(prev, data, optimisticId) ==
    IF prev = NoChat THEN prev
    ELSE IF Has(data, "aiMessage") /\ Has(data, "userMessage")
    THEN [prev EXCEPT !.messages =
             SelectSeq(prev.messages, LAMBDA m : m.role # "user")
             \o << data.userMessage, data.aiMessage >>]
    ELSE prev

\* lines 239-254: the updater of the `done` branch
Finalize(prev, data, optimisticId) ==
    IF prev = NoChat THEN prev
    ELSE IF Has(data, "aiMessage") /\ Has(data, "userMessage")
    THEN [prev EXCEPT !.messages =
             SelectSeq(prev.messages, LAMBDA m : m.id # optimisticId)
             \o << data.userMessage, data.aiMessage >>]
    ELSE prev

SyntaxError == [isError |-> TRUE, name |-> "SyntaxError",
                message |-> << "Unexpected token" >>]
NoThrow     == [isError |-> FALSE, name |-> "", message |-> << >>]

\* the try body with line 233 setting the text to the token
TryBodyTokenReplaces(st, eventType, dataStr, optimisticId) ==
    LET parsed == JSONparse(dataStr)
        data   == parsed.value
    IN  IF ~parsed.ok
        THEN [st |-> st, thrown |-> TRUE, err |-> SyntaxError]
        ELSE IF eventType = << "token" >>
        THEN [st |-> [st EXCEPT !.streamingMessage =
                         (IF Has(data, "content") THEN data.content
                          ELSE << "undefined" >>)],
              thrown |-> FALSE, err |-> NoThrow]
        ELSE IF eventType = << "status" >>
        THEN [st |-> [st EXCEPT !.agentStatus =
                         IF Has(data, "status") THEN data.status ELSE "undefined"],
              thrown |-> FALSE, err |-> NoThrow]
        ELSE IF eventType = << "error" >>
        THEN [st |-> st, thrown |-> TRUE,
              err |-> [isError |-> TRUE, name |-> "Error",
                       message |-> IF Has(data, "message") THEN data.message
                                   ELSE << "Unknown error" >>]]
        ELSE IF eventType = << "done" >>
        THEN [st |-> [st EXCEPT !.chat = Finalize(@, data, optimisticId)],
              thrown |-> FALSE, err |-> NoThrow]
        ELSE [st |-> st, thrown |-> FALSE, err |-> NoThrow]

\* lines 230-255: the body of the inner try.  st is the state the body
\* reads and writes; thrown is what the body throws, if anything.
TryBody(st, eventType, dataStr, optimisticId) ==
    LET parsed == JSONparse(dataStr)
        data   == parsed.value
    IN  IF ~parsed.ok
        THEN [st |-> st, thrown |-> TRUE, err |-> SyntaxError]
        ELSE IF eventType = << "token" >>
        THEN [st |-> [st EXCEPT !.streamingMessage =
                         @ \o (IF Has(data, "content") THEN data.content
                               ELSE << "undefined" >>)],
              thrown |-> FALSE, err |-> NoThrow]
        ELSE IF eventType = << "status" >>
        THEN [st |-> [st EXCEPT !.agentStatus =
                         IF Has(data, "status") THEN data.status ELSE "undefined"],
              thrown |-> FALSE, err |-> NoThrow]
        ELSE IF eventType = << "error" >>
        THEN [st |-> st, thrown |-> TRUE,
              err |-> [isError |-> TRUE, name |-> "Error",
                       message |-> IF Has(data, "message") THEN data.message
                                   ELSE << "Unknown error" >>]]
        ELSE IF eventType = << "done" >>
        THEN [st |-> [st EXCEPT !.chat = Finalize(@, data, optimisticId)],
              thrown |-> FALSE, err |-> NoThrow]
        ELSE [st |-> st, thrown |-> FALSE, err |-> NoThrow]

\* lines 229-258: the inner try with its catch, which logs a warning for
\* whatever the body threw and lets the loop go on
TryCatch(st, eventType, dataStr, optimisticId) ==
    LET r == TryBody(st, eventType, dataStr, optimisticId)
    IN  IF r.thrown THEN [r.st EXCEPT !.warnings = @ + 1] ELSE r.st

\* lines 213-258: one iteration of `for (const eventBlock of events)`
ProcessBlock(st, eventBlock, optimisticId) ==
    IF Trim(eventBlock) = << >> THEN st
    ELSE LET p  == ParseBlock(eventBlock)
             s1 == [st EXCEPT !.handed = Append(@, eventBlock)]
         IN  IF p.eventType = << >> \/ p.dataStr = << >> THEN s1
             ELSE TryCatch([s1 EXCEPT !.parsed = Append(@, p)],
                           p.eventType, p.dataStr, optimisticId)

\* ProcessBlocks when what the try body throws leaves the for loop
RECURSIVE ProcessBlocksStopsOnThrow(_, _, _)
ProcessBlocksStopsOnThrow(st, events, optimisticId) ==
    IF events = << >> THEN st
    ELSE LET st1 == ProcessBlock(st, Head(events), optimisticId)
         IN  IF st1.warnings > st.warnings THEN st1
             ELSE ProcessBlocksStopsOnThrow(st1, Tail(events), optimisticId)

\* lines 212-259: the for loop over the complete blocks of this chunk
RECURSIVE ProcessBlocks(_, _, _)
ProcessBlocks(st, events, optimisticId) ==
    IF events = << >> THEN st
    ELSE ProcessBlocks(ProcessBlock(st, Head(events), optimisticId),
                       Tail(events), optimisticId)

----------------------------------------------------------------------------
(* What the backend and the transport may deliver *)

Block(type, json) == << EV, type, NL, DA, json >>
Sep               == << NL, NL >>
Frame(type, json) == Block(type, json) \o Sep

RawAlphabet == {NL, SP, LeadByte, ContByte}

RECURSIVE RawStreams(_)
RawStreams(n) ==
    IF n = 0 THEN {<< >>}
    ELSE LET shorter == RawStreams(n - 1)
         IN  shorter \cup { Append(r, c) : r \in shorter, c \in RawAlphabet }

\* the bodies the k-th request may be answered with
Streams(k) ==
    { \* status, two tokens, done
      Frame("status", StatusThink) \o Frame("token", ContentHi)
        \o Frame("token", ContentThere) \o Frame("done", DoneText(k)),
      \* an error event, then end of stream
      Frame("token", ContentHi) \o Frame("error", MessageRate),
      \* an error event without message
      Frame("error", EmptyObject),
      \* an error event followed by more events
      Frame("error", MessageRate) \o Frame("token", ContentHi)
        \o Frame("done", DoneText(k)),
      \* done sent twice
      Frame("done", DoneText(k)) \o Frame("done", DoneText(k)),
      \* events after done
      Frame("done", DoneText(k)) \o Frame("token", ContentHi)
        \o Frame("status", StatusThink) \o Frame("error", MessageRate),
      \* a payload that is not JSON, followed by well-formed events
      Frame("token", BrokenJSON) \o Frame("token", ContentHi)
        \o Frame("done", DoneText(k)),
      \* done without aiMessage
      Frame("token", ContentHi) \o Frame("done", DoneNoAiText(k)),
      \* a last block that is not terminated
      Frame("token", ContentHi) \o Block("done", DoneText(k)),
      \* several event and data lines in one block
      << EV, "token", NL, EV, "status", NL, DA, ContentHi, NL, DA, StatusThink >>
        \o Sep,
      \* padding around the type and the payload, a token without content
      << EV, SP, "token", SP, NL, DA, SP, ContentHi, SP >> \o Sep
        \o Frame("token", EmptyObject),
      \* a block without data line, an unknown type, a status without status
      << EV, "token" >> \o Sep \o Frame("ping", EmptyObject)
        \o Frame("status", EmptyObject),
      \* three newlines between two blocks, a blank block at the end
      Frame("token", ContentHi) \o << NL >> \o Frame("token", ContentThere)
        \o << SP >> \o Sep
    }

\* what `await fetch(...)` may resolve to
Responses(k) ==
    { [ok |-> FALSE, status |-> st, hasBody |-> TRUE, stream |-> << >>] :
          st \in {"500", "429"} }
    \cup { [ok |-> TRUE, status |-> "204", hasBody |-> FALSE, stream |-> << >>] }
    \cup { [ok |-> TRUE, status |-> "200", hasBody |-> TRUE, stream |-> body] :
               body \in Streams(k) }

\* successful responses whose body is arbitrary text over RawAlphabet
RawResponses ==
    { [ok |-> TRUE, status |-> "200", hasBody |-> TRUE, stream |-> body] :
          body \in RawStreams(MaxRaw) }

\* values an await may reject with
AbortError   == [isError |-> TRUE, name |-> "AbortError",
                 message |-> << "The operation was aborted." >>]
NetworkError == [isError |-> TRUE, name |-> "TypeError",
                 message |-> << "Failed to fetch" >>]
NonError     == [isError |-> FALSE, name |-> "", message |-> << >>]
NullSignal   == [isError |-> TRUE, name |-> "TypeError",
                 message |-> << "Cannot read properties of null" >>]
HttpError(status) == [isError |-> TRUE, name |-> "Error",
                      message |-> << "HTTP error! status: ", status >>]
NoBodyError  == [isError |-> TRUE, name |-> "Error",
                 message |-> << "No response body" >>]

\* what the chat load may return: the persisted messages of the chat
ChatSnapshots == { << UserMsg(0), AiMsg(0) >> }

Contents == {"Hello"}

----------------------------------------------------------------------------
(* Initial state: the page as constructed, lines 109-130 *)

NoResponse == [ok |-> FALSE, status |-> "", hasBody |-> FALSE]

\* pc: "idle", "getToken" (line 173), "fetch" (line 176), "read" (line 202),
\* "returned"; optimisticId: optimisticUserMessage.id; aborted: the signal of
\* the controller this invocation created; signal: the controller the fetch
\* was given; response: the resolved response; wire: the bytes of the body
\* not yet read; pending: the decoder holds a lead byte
IdleSess == [pc |-> "idle", optimisticId |-> << >>, content |-> "", k |-> 0,
             aborted |-> FALSE, signal |-> 0, response |-> NoResponse,
             wire |-> << >>, pending |-> FALSE, buffer |-> << >>]

\* outcome: how the invocation ended; before: the message list at entry;
\* toasts: the toast.error calls of the invocation; received: the text read
\* so far; handed: the blocks that passed line 213; parsed: the blocks that
\* reached the try of line 229; warnings: console.warn calls of line 257
IdleHist == [outcome |-> "none", before |-> << >>, toasts |-> << >>,
             received |-> << >>,
             handed |-> << >>, parsed |-> << >>, warnings |-> 0]

Init ==
    /\ currentChatData = NoChat
    /\ isLoadingChatData = TRUE
    /\ userId = NoUser
    /\ sendMessageError = NoError
    /\ isMessageSending = FALSE
    /\ isStreaming = FALSE
    /\ streamingMessage = << >>
    /\ agentStatus = ""
    /\ abortControllerRef = 0
    /\ mounted = TRUE
    /\ now = 0
    /\ calls = 0
    /\ requests = 0
    /\ sess = [s \in Slots |-> IdleSess]
    /\ hist = [s \in Slots |-> IdleHist]

----------------------------------------------------------------------------
(* The page around the send *)

\* useAuth resolves the signed-in user, line 130
SignIn ==
    /\ mounted /\ userId = NoUser /\ isLoadingChatData
    /\ userId' = "user_1"
    /\ UNCHANGED << currentChatData, isLoadingChatData, sendMessageError,
                    isMessageSending, isStreaming, streamingMessage,
                    agentStatus, abortControllerRef, mounted, now,
                    calls, requests, sess, hist >>

Active(s) == sess[s].pc \notin {"idle", "returned"}

\* the session ends; userId is read by handleSendMessage at entry only
SignOut ==
    /\ mounted /\ userId # NoUser /\ ~isLoadingChatData
    /\ \A s \in Slots : ~Active(s)
    /\ userId' = NoUser
    /\ UNCHANGED << currentChatData, isLoadingChatData, sendMessageError,
                    isMessageSending, isStreaming, streamingMessage,
                    agentStatus, abortControllerRef, mounted, now,
                    calls, requests, sess, hist >>

\* loadChat, lines 328-345
LoadChat ==
    /\ mounted /\ userId # NoUser /\ isLoadingChatData
    /\ \/ \E snapshot \in ChatSnapshots :
            currentChatData' = [id |-> "chat_1", messages |-> snapshot]
       \/ currentChatData' = currentChatData
    /\ isLoadingChatData' = FALSE
    /\ UNCHANGED << userId, sendMessageError, isMessageSending, isStreaming,
                    streamingMessage, agentStatus, abortControllerRef, mounted,
                    now, calls, requests, sess, hist >>

\* onDismissError, line 376
DismissError ==
    /\ mounted /\ sendMessageError # NoError
    /\ sendMessageError' = NoError
    /\ UNCHANGED << currentChatData, isLoadingChatData, userId,
                    isMessageSending, isStreaming, streamingMessage,
                    agentStatus, abortControllerRef, mounted, now,
                    calls, requests, sess, hist >>

\* the cleanup of the unmount effect, lines 351-357
Unmount ==
    /\ mounted
    /\ mounted' = FALSE
    /\ sess' = IF abortControllerRef # 0
               THEN [sess EXCEPT ![abortControllerRef].aborted = TRUE]
               ELSE sess
    /\ UNCHANGED << currentChatData, isLoadingChatData, userId,
                    sendMessageError, isMessageSending, isStreaming,
                    streamingMessage, agentStatus, abortControllerRef,
                    now, calls, requests, hist >>

----------------------------------------------------------------------------
(* handleSendMessage, lines 137-286 *)

\* the guard of line 138 with && in place of ||
PreconditionFailsBoth == currentChatData = NoChat /\ userId = NoUser

\* line 138
PreconditionFails == currentChatData = NoChat \/ userId = NoUser

\* lines 165-171: the updater that appends the optimistic message
AppendOptimistic(prev, optimisticUserMessage) ==
    IF prev = NoChat THEN prev
    ELSE [prev EXCEPT !.messages = Append(@, optimisticUserMessage)]

\* the updater of lines 272-278 without the filter
RollbackKeepsAll(prev) == prev

\* lines 272-278: the updater that removes the optimistic message
Rollback(prev) ==
    IF prev = NoChat THEN prev
    ELSE [prev EXCEPT !.messages = SelectSeq(@, LAMBDA msg : ~IsTemp(msg))]

\* line 262 comparing with a name no rejection carries
IsAbortWrongName(err) == err.isError /\ err.name = "Aborted"

\* line 262
IsAbort(err) == err.isError /\ err.name = "AbortError"

\* lines 266-267
ErrorMessage(err) ==
    IF err.isError THEN err.message ELSE << "Failed to send message" >>

\* the signal handed to fetch has been aborted
SignalAborted(s) == sess[s].signal # 0 /\ sess[sess[s].signal].aborted

\* lines 279-285 without line 284
FinallyKeepsHandle(s, se, hi, outcome) ==
    /\ isMessageSending' = FALSE
    /\ isStreaming' = FALSE
    /\ streamingMessage' = << >>
    /\ agentStatus' = ""
    /\ abortControllerRef' = abortControllerRef
    /\ sess' = [sess EXCEPT ![s] =
           [se EXCEPT !.pc = "returned", !.wire = << >>, !.pending = FALSE,
                      !.buffer = << >>]]
    /\ hist' = [hist EXCEPT ![s] =
           [hi EXCEPT !.outcome = outcome, !.received = << >>,
                      !.handed = << >>]]

\* lines 279-285, and the return of the function: the reader, the decoder
\* and the buffer go out of scope, and with them the record of the text
Finally(s, se, hi, outcome) ==
    /\ isMessageSending' = FALSE
    /\ isStreaming' = FALSE
    /\ streamingMessage' = << >>
    /\ agentStatus' = ""
    /\ abortControllerRef' = 0
    /\ sess' = [sess EXCEPT ![s] =
           [se EXCEPT !.pc = "returned", !.wire = << >>, !.pending = FALSE,
                      !.buffer = << >>]]
    /\ hist' = [hist EXCEPT ![s] =
           [hi EXCEPT !.outcome = outcome, !.received = << >>,
                      !.handed = << >>]]

\* lines 261-285: the outer catch, then finally
Catch(s, err, se, hi) ==
    IF IsAbort(err)
    THEN /\ UNCHANGED << sendMessageError, currentChatData >>
         /\ Finally(s, se, hi, "cancelled")
    ELSE /\ sendMessageError' = ErrorMessage(err)
         /\ currentChatData' = Rollback(currentChatData)
         /\ Finally(s, se, [hi EXCEPT !.toasts = Append(@, ErrorMessage(err))],
                    "failed")

\* the lowest slot that holds no outstanding invocation
FreeSlot(s) ==
    /\ ~Active(s)
    /\ \A r \in Slots : r < s => Active(r)

\* lines 137-173: entry of handleSendMessage up to `await getToken()`
Enter(s, content, t) ==
    /\ calls' = calls + 1
    /\ IF PreconditionFails
       THEN /\ sendMessageError' = << "Chat or user not found" >>
            /\ UNCHANGED << currentChatData, isMessageSending, isStreaming,
                            streamingMessage, agentStatus, abortControllerRef,
                            now, sess, hist >>
       ELSE /\ sendMessageError' = NoError
            /\ isMessageSending' = TRUE
            /\ isStreaming' = TRUE
            /\ streamingMessage' = << >>
            /\ agentStatus' = ""
            /\ abortControllerRef' = s
            /\ now' = t
            /\ currentChatData' = AppendOptimistic(currentChatData,
                   [id |-> TempId(t), role |-> "user", content |-> content])
            /\ sess' = [sess EXCEPT ![s] =
                   [IdleSess EXCEPT !.pc = "getToken", !.optimisticId = TempId(t),
                                    !.content = content, !.k = calls + 1]]
            /\ hist' = [hist EXCEPT ![s] =
                   [IdleHist EXCEPT !.before = currentChatData.messages]]
    /\ UNCHANGED << isLoadingChatData, userId, mounted, requests >>

\* Date.now() at an invocation: the millisecond of the previous invocation
\* or a later one.  The reading is used as an id only (line 155), so a
\* reading that equals no temporary id in the list stands for every such.
Clock ==
    IF \E i \in 1..Len(currentChatData.messages) :
           currentChatData.messages[i].id = TempId(now)
    THEN {now, now + 1}
    ELSE {now + 1}

\* the user sends a message while no send is outstanding (the chat input is
\* given isLoading = isMessageSending, line 374)
Send(s, content, t) ==
    /\ mounted /\ calls < MaxSends
    /\ \A r \in Slots : ~Active(r)
    /\ FreeSlot(s)
    /\ Enter(s, content, t)

\* lines 173-187: getToken resolved, fetch is called
GetTokenResolved(s) ==
    /\ sess[s].pc = "getToken"
    /\ IF abortControllerRef = 0
       THEN /\ Catch(s, NullSignal, sess[s], hist[s])
            /\ UNCHANGED requests
       ELSE /\ sess' = [sess EXCEPT ![s].pc = "fetch",
                                    ![s].signal = abortControllerRef]
            /\ requests' = requests + 1
            /\ UNCHANGED << currentChatData, sendMessageError, isMessageSending,
                            isStreaming, streamingMessage, agentStatus,
                            abortControllerRef, hist >>
    /\ UNCHANGED << isLoadingChatData, userId, mounted, now, calls >>

\* lines 176-202: fetch resolved; the response is checked and the reader made
FetchResolved(s, resp) ==
    /\ sess[s].pc = "fetch" /\ ~SignalAborted(s)
    /\ LET se == [sess[s] EXCEPT
                     !.response = [ok |-> resp.ok, status |-> resp.status,
                                   hasBody |-> resp.hasBody]]
       IN  IF ~resp.ok
           THEN Catch(s, HttpError(resp.status), se, hist[s])
           ELSE IF ~resp.hasBody
           THEN Catch(s, NoBodyError, se, hist[s])
           ELSE /\ sess' = [sess EXCEPT ![s] =
                       [se EXCEPT !.pc = "read", !.wire = resp.stream,
                                  !.pending = FALSE, !.buffer = << >>]]
                /\ UNCHANGED << currentChatData, sendMessageError,
                                isMessageSending, isStreaming, streamingMessage,
                                agentStatus, abortControllerRef, hist >>
    /\ UNCHANGED << isLoadingChatData, userId, mounted, now, calls, requests >>

\* line 208: the complete blocks
CompleteBlocks(events) == Front(events)

\* line 210 forgetting the incomplete last piece
RetainedDropsPartial(events) == << >>

\* line 210: what stays in the buffer
Retained(events) == events[Len(events)]

\* lines 202-260: reader.read() delivered a chunk of n bytes; one iteration
\* of the while loop
ReadChunk(s, n) ==
    /\ sess[s].pc = "read" /\ ~SignalAborted(s)
    /\ n <= Len(sess[s].wire)
    /\ LET value  == SubSeq(sess[s].wire, 1, n)
           chunk  == Decode(sess[s].pending, value)
           events == Split(sess[s].buffer \o chunk.text, Sep)
           st0 == [chat |-> currentChatData,
                   streamingMessage |-> streamingMessage,
                   agentStatus |-> agentStatus,
                   handed |-> hist[s].handed,
                   parsed |-> hist[s].parsed,
                   warnings |-> hist[s].warnings]
           st  == ProcessBlocks(st0, CompleteBlocks(events), sess[s].optimisticId)
       IN  /\ currentChatData' = st.chat
           /\ streamingMessage' = st.streamingMessage
           /\ agentStatus' = st.agentStatus
           /\ sess' = [sess EXCEPT ![s].wire = Slice(@, n),
                                   ![s].pending = chunk.pending,
                                   ![s].buffer = Retained(events)]
           /\ hist' = [hist EXCEPT ![s].received = @ \o value,
                                   ![s].handed = st.handed,
                                   ![s].parsed = st.parsed,
                                   ![s].warnings = st.warnings]
    /\ UNCHANGED << isLoadingChatData, userId, sendMessageError,
                    isMessageSending, isStreaming, abortControllerRef,
                    mounted, now, calls, requests >>

\* the end of the body with the text left in the buffer handed to the loop
\* of line 212 as a last block
ReadDoneFlushes(s) ==
    /\ sess[s].pc = "read" /\ ~SignalAborted(s)
    /\ sess[s].wire = << >>
    /\ LET st0 == [chat |-> currentChatData,
                   streamingMessage |-> streamingMessage,
                   agentStatus |-> agentStatus,
                   handed |-> hist[s].handed,
                   parsed |-> hist[s].parsed,
                   warnings |-> hist[s].warnings]
           st  == ProcessBlocks(st0, << sess[s].buffer >>, sess[s].optimisticId)
       IN  /\ currentChatData' = st.chat
           /\ Finally(s, sess[s],
                      [hist[s] EXCEPT !.parsed = st.parsed,
                                      !.warnings = st.warnings], "ended")
    /\ UNCHANGED << isLoadingChatData, userId,
                    sendMessageError, mounted, now, calls, requests >>

\* lines 202-203 and 279-285: reader.read() reported the end of the body
ReadDone(s) ==
    /\ sess[s].pc = "read" /\ ~SignalAborted(s)
    /\ sess[s].wire = << >>
    /\ Finally(s, sess[s], hist[s], "ended")
    /\ UNCHANGED << currentChatData, isLoadingChatData, userId,
                    sendMessageError, mounted, now, calls, requests >>

\* an await rejects with a value other than the abort: getToken fails, the
\* network fails during fetch or during a read
AwaitRejected(s, err) ==
    /\ \/ sess[s].pc = "getToken"
       \/ sess[s].pc \in {"fetch", "read"} /\ ~SignalAborted(s)
    /\ Catch(s, err, sess[s], hist[s])
    /\ UNCHANGED << isLoadingChatData, userId, mounted, now, calls, requests >>

\* fetch or reader.read() rejects with AbortError: the signal was aborted
AwaitAborted(s) ==
    /\ sess[s].pc \in {"fetch", "read"} /\ SignalAborted(s)
    /\ Catch(s, AbortError, sess[s], hist[s])
    /\ UNCHANGED << isLoadingChatData, userId, mounted, now, calls, requests >>

\* the environment's choices for the two steps that take an input
SendMessage(s)    == \E content \in Contents, t \in Clock : Send(s, content, t)
FetchAnswered(s)  ==
    /\ sess[s].pc = "fetch"
    /\ \E resp \in Responses(sess[s].k) : FetchResolved(s, resp)
ChunkArrives(s)   ==
    /\ sess[s].pc = "read"
    /\ \E n \in 0..MaxChunk : ReadChunk(s, n)
AwaitFails(s)     == \E err \in {NetworkError, NonError} : AwaitRejected(s, err)

----------------------------------------------------------------------------
Next ==
    \/ SignIn
    \/ SignOut
    \/ LoadChat
    \/ DismissError
    \/ Unmount
    \/ \E s \in Slots : SendMessage(s)
    \/ \E s \in Slots : GetTokenResolved(s)
    \/ \E s \in Slots : FetchAnswered(s)
    \/ \E s \in Slots : ChunkArrives(s)
    \/ \E s \in Slots : ReadDone(s)
    \/ \E s \in Slots : AwaitFails(s)
    \/ \E s \in Slots : AwaitAborted(s)

Spec == Init /\ [][Next]_vars

\* One send whose response body is arbitrary text, delivered in chunks of
\* every size: the frame decoder under every split of every short stream.
FirstSend(s)        == calls = 0 /\ ~PreconditionFails /\ SendMessage(s)
FetchAnsweredRaw(s) ==
    /\ sess[s].pc = "fetch"
    /\ \E resp \in RawResponses : FetchResolved(s, resp)

NextFraming ==
    \/ SignIn
    \/ LoadChat
    \/ \E s \in Slots : FirstSend(s)
    \/ \E s \in Slots : GetTokenResolved(s)
    \/ \E s \in Slots : FetchAnsweredRaw(s)
    \/ \E s \in Slots : ChunkArrives(s)
    \/ \E s \in Slots : ReadDone(s)

SpecFraming == Init /\ [][NextFraming]_vars

\* handleSendMessage invoked whatever the state of an earlier invocation:
\* the function itself has no in-flight guard (lines 137-151), so a caller
\* that does not wait for isMessageSending starts a second send.
\* MaxSlots bounds the invocations outstanding at once.
Resend(s, content, t) ==
    /\ mounted /\ calls < MaxSends
    /\ FreeSlot(s)
    /\ Enter(s, content, t)

\* the bodies of the overlapping sends: a token then done, or an error event
ShortStreams(k) ==
    { Frame("token", ContentHi) \o Frame("done", DoneText(k)),
      Frame("error", MessageRate) }

ShortResponses(k) ==
    { [ok |-> FALSE, status |-> "500", hasBody |-> TRUE, stream |-> << >>] }
    \cup { [ok |-> TRUE, status |-> "200", hasBody |-> TRUE, stream |-> body] :
               body \in ShortStreams(k) }

SendAgain(s) == \E content \in Contents, t \in Clock : Resend(s, content, t)
FetchAnsweredShort(s) ==
    /\ sess[s].pc = "fetch"
    /\ \E resp \in ShortResponses(sess[s].k) : FetchResolved(s, resp)

NextOverlap ==
    \/ SignIn
    \/ LoadChat
    \/ Unmount
    \/ \E s \in Slots : SendAgain(s)
    \/ \E s \in Slots : GetTokenResolved(s)
    \/ \E s \in Slots : FetchAnsweredShort(s)
    \/ \E s \in Slots : ChunkArrives(s)
    \/ \E s \in Slots : ReadDone(s)
    \/ \E s \in Slots : AwaitFails(s)
    \/ \E s \in Slots : AwaitAborted(s)

SpecOverlap == Init /\ [][NextOverlap]_vars

----------------------------------------------------------------------------
(* Vocabulary of the properties *)

Messages == currentChatData.messages

HasId(id) == \E i \in 1..Len(Messages) : Messages[i].id = id

TempEntries == SelectSeq(Messages, IsTemp)

Last(seq) == seq[Len(seq)]

EndsWith(seq, tail) ==
    /\ Len(seq) >= Len(tail)
    /\ SubSeq(seq, Len(seq) - Len(tail) + 1, Len(seq)) = tail

\* the session resources are released
Released ==
    /\ ~isStreaming
    /\ ~isMessageSending
    /\ streamingMessage = << >>
    /\ agentStatus = ""
    /\ abortControllerRef = 0

Returned(s) == sess[s].pc = "returned"

\* the step in which invocation s returns
Returns(s) == sess[s].pc # "returned" /\ sess'[s].pc = "returned"

\* p, a parsed block, is an event of the given type with a JSON payload
IsEvent(p, type) == p.eventType = << type >> /\ JSONparse(p.dataStr).ok

Payload(p) == JSONparse(p.dataStr).value

\* a `done` event that carries both persisted messages
IsCompleteDone(p) ==
    /\ IsEvent(p, "done")
    /\ Has(Payload(p), "userMessage") /\ Has(Payload(p), "aiMessage")

\* the blocks dispatched by the step being taken
NewEvents(s) ==
    SubSeq(hist'[s].parsed, Len(hist[s].parsed) + 1, Len(hist'[s].parsed))

\* positions of the error events that no done event precedes
ErrorsBeforeDone(parsed) ==
    { i \in 1..Len(parsed) :
        /\ IsEvent(parsed[i], "error")
        /\ \A j \in 1..(i - 1) : parsed[j].eventType # << "done" >> }

\* the message carried by the first of them
CarriedMessage(parsed) ==
    LET i == CHOOSE e \in ErrorsBeforeDone(parsed) :
                 \A j \in ErrorsBeforeDone(parsed) : e <= j
    IN  IF Has(Payload(parsed[i]), "message") THEN Payload(parsed[i]).message
        ELSE << "Unknown error" >>

----------------------------------------------------------------------------
(* C1: when the stream delivered an `error` event with message M before    *)
(* any `done` event, then at the return of handleSendMessage the           *)
(* optimistic message of the send is not in the list, sendMessageError is  *)
(* M and the session resources are released.                               *)
C1_ErrorEventFailsSend ==
    [][ \A s \in Slots :
          (Returns(s) /\ ErrorsBeforeDone(hist'[s].parsed) # {})
          => /\ ~HasId(sess[s].optimisticId)'
             /\ sendMessageError' = CarriedMessage(hist'[s].parsed)
             /\ Released' ]_vars

----------------------------------------------------------------------------
(* C2: however the body is cut into chunks, the non-blank blocks handed to *)
(* the event parser are the non-blank "\n\n"-terminated blocks of the text *)
(* received so far, in order, each once.                                   *)

\* the bytes received so far, decoded as one piece
ReceivedText(s) == Decode(FALSE, hist[s].received).text

TerminatedBlocks(text) == Front(Split(text, Sep))

NonBlank(blocks) == SelectSeq(blocks, LAMBDA b : Trim(b) # << >>)

----------------------------------------------------------------------------
(* C3: once a `done` event carrying userMessage u and aiMessage a has been *)
(* dispatched, the list does not contain the optimistic message of the     *)
(* send and its last two entries are u then a (of the latest such event);  *)
(* once the send has returned the streaming text is empty.                 *)
CompleteDones(parsed) == SelectSeq(parsed, IsCompleteDone)

C3_DoneReplacesOptimistic ==
    \A s \in Slots :
        (sess[s].pc \in {"read", "returned"} /\ CompleteDones(hist[s].parsed) # << >>)
        => LET d == Payload(Last(CompleteDones(hist[s].parsed)))
           IN  /\ ~HasId(sess[s].optimisticId)
               /\ EndsWith(Messages, << d.userMessage, d.aiMessage >>)
               /\ Returned(s) => streamingMessage = << >>

\* status, token, token, done was dispatched and the send has returned
C3_Witness ==
    \E s \in Slots :
        /\ Returned(s) /\ hist[s].outcome = "ended"
        /\ Len(hist[s].parsed) = 4
        /\ IsEvent(hist[s].parsed[2], "token")
        /\ IsCompleteDone(hist[s].parsed[4])
        /\ EndsWith(Messages, << UserMsg(sess[s].k), AiMsg(sess[s].k) >>)
        /\ TempEntries = << >>

----------------------------------------------------------------------------
(* C4: a second `done` event of the same stream, dispatched after the      *)
(* optimistic message has been replaced, leaves the message list as it is. *)
C4_FinalizeIdempotent ==
    [][ \A s \in Slots :
          ( /\ sess[s].pc = "read" /\ sess'[s].pc = "read"
            /\ CompleteDones(hist[s].parsed) # << >>
            /\ NewEvents(s) # << >>
            /\ \A i \in 1..Len(NewEvents(s)) :
                   NewEvents(s)[i].eventType = << "done" >> )
          => currentChatData' = currentChatData ]_vars

----------------------------------------------------------------------------
(* C5: a send whose transport was aborted by the cancellation sets no      *)
(* error and shows no error toast, and once it has returned the session    *)
(* resources are released.                                                 *)
C5_CancelIsSilent ==
    \A s \in Slots :
        (sess[s].pc \in {"fetch", "read", "returned"} /\ SignalAborted(s))
        => /\ sendMessageError = NoError
           /\ hist[s].toasts = << >>
           /\ Returned(s) => (hist[s].outcome = "cancelled" /\ Released)

\* a send cancelled after part of the body had been read has returned
C5_Witness ==
    \E s \in Slots :
        /\ Returned(s) /\ hist[s].outcome = "cancelled"
        /\ hist[s].parsed # << >>
        /\ CompleteDones(hist[s].parsed) = << >>

----------------------------------------------------------------------------
(* C6: whenever a send that passed the precondition check has returned,    *)
(* the message with its temporary id is not in the list.                   *)
C6_OptimisticResolved ==
    \A s \in Slots : Returned(s) => ~HasId(sess[s].optimisticId)

----------------------------------------------------------------------------
(* C7: the list holds at most one optimistic entry, and while a stream is  *)
(* active that entry is the most recently appended user message.           *)
UserMessages == SelectSeq(Messages, LAMBDA m : m.role = "user")

C7_AtMostOneOptimistic ==
    /\ Len(TempEntries) <= 1
    /\ \A s \in Slots :
         (Active(s) /\ TempEntries # << >>)
         => Last(UserMessages) = TempEntries[1]

----------------------------------------------------------------------------
(* C8: an invocation with a null conversation or without user id sets the  *)
(* error "Chat or user not found" and nothing else: no request, no         *)
(* optimistic message, no change of the list, flags, text, status or       *)
(* cancel handle, and no invocation left in flight.                        *)
C8_PreconditionFailure ==
    [][ (calls' = calls + 1 /\ (currentChatData = NoChat \/ userId = NoUser))
        => /\ sendMessageError' = << "Chat or user not found" >>
           /\ requests' = requests
           /\ UNCHANGED << currentChatData, isMessageSending, isStreaming,
                           streamingMessage, agentStatus, abortControllerRef,
                           sess >> ]_vars

\* rejected although the conversation is loaded: the user id is missing
C8_Witness ==
    /\ calls >= 1
    /\ currentChatData # NoChat /\ userId = NoUser
    /\ sendMessageError = << "Chat or user not found" >>
    /\ requests = 0
    /\ TempEntries = << >>

----------------------------------------------------------------------------
(* C9: a response with a non-success status or without body makes the send *)
(* return without any block dispatched, with the optimistic message        *)
(* removed, sendMessageError set to the message carrying the status (or    *)
(* the missing body) and shown as one error toast, and the resources       *)
(* released.                                                               *)
C9_HttpFailure ==
    [][ \A s \in Slots :
          ( /\ Returns(s)
            /\ sess'[s].response.status # ""
            /\ (~sess'[s].response.ok \/ ~sess'[s].response.hasBody) )
          => /\ hist'[s].parsed = << >> /\ hist[s].received = << >>
             /\ ~HasId(sess[s].optimisticId)'
             /\ sendMessageError' =
                    IF ~sess'[s].response.ok
                    THEN << "HTTP error! status: ", sess'[s].response.status >>
                    ELSE << "No response body" >>
             /\ hist'[s].toasts = << sendMessageError' >>
             /\ Released' ]_vars

\* a send answered with status 500 has returned
C9_Witness ==
    \E s \in Slots :
        /\ Returned(s) /\ hist[s].outcome = "failed"
        /\ sess[s].response.status = "500"
        /\ sendMessageError = << "HTTP error! status: ", "500" >>
        /\ ~HasId(sess[s].optimisticId)

----------------------------------------------------------------------------
(* C10: blocks whose payload is not JSON change neither the message list,  *)
(* the streaming text, the status nor the error, and the stream goes on:   *)
(* the streaming text is always the text of the token events with a JSON   *)
(* payload among the blocks received so far, whatever malformed blocks     *)
(* came in between.                                                        *)
TokenContent(p) ==
    IF Has(Payload(p), "content") THEN Payload(p).content ELSE << "undefined" >>

\* the contents of the token events among parsed[i..], after text
RECURSIVE TokenTextFrom(_, _, _)
TokenTextFrom(parsed, i, text) ==
    IF i > Len(parsed) THEN text
    ELSE TokenTextFrom(parsed, i + 1,
             IF IsEvent(parsed[i], "token") THEN text \o TokenContent(parsed[i])
             ELSE text)

TokenText(parsed) == TokenTextFrom(parsed, 1, << >>)

\* the scans of the blocks that carry an event type and a payload
RECURSIVE Scans(_)
Scans(blocks) ==
    IF blocks = << >> THEN << >>
    ELSE LET p == ParseBlock(Head(blocks))
         IN  (IF p.eventType # << >> /\ p.dataStr # << >> THEN << p >> ELSE << >>)
             \o Scans(Tail(blocks))

\* what the received text holds for the dispatch
Dispatchable(text) == Scans(NonBlank(TerminatedBlocks(text)))

C10_DecodeErrorSwallowed ==
    [][ \A s \in Slots :
          /\ ( /\ sess[s].pc = "read"
               /\ NewEvents(s) # << >>
               /\ \A i \in 1..Len(NewEvents(s)) :
                      ~JSONparse(NewEvents(s)[i].dataStr).ok )
             => /\ UNCHANGED << currentChatData, streamingMessage,
                                agentStatus, sendMessageError >>
                /\ sess'[s].pc = "read"
          /\ sess'[s].pc = "read"
             => \A parsed \in {Dispatchable(Decode(FALSE, hist'[s].received).text)} :
                    streamingMessage' = TokenText(parsed) ]_vars

\* a token was dispatched after a block with a malformed payload
C10_Witness ==
    \E s \in Slots :
        /\ sess[s].pc = "read"
        /\ Len(hist[s].parsed) >= 2
        /\ ~JSONparse(hist[s].parsed[1].dataStr).ok
        /\ IsEvent(hist[s].parsed[2], "token")
        /\ streamingMessage = << "Hi" >>
        /\ hist[s].warnings = 1

----------------------------------------------------------------------------
(* C11: an invocation of handleSendMessage made while an earlier one has   *)
(* not returned appends no optimistic message and starts no invocation     *)
(* that goes on to a request: the list and every invocation stay as they   *)
(* are.                                                                    *)
C11_NoSendWhileActive ==
    [][ (calls' = calls + 1 /\ \E r \in Slots : Active(r))
        => /\ currentChatData' = currentChatData
           /\ \A s \in Slots : sess'[s].pc = sess[s].pc ]_vars

----------------------------------------------------------------------------
(* C12: an `error` event ends the stream: no token, status or done block   *)
(* dispatched after it is applied, and the send has returned as failed.    *)

\* p, a dispatched block, changes the streaming text, the status or the list
Applies(p) ==
    \/ IsEvent(p, "token")
    \/ IsEvent(p, "status")
    \/ IsCompleteDone(p)

C12_ErrorAbortsLoop ==
    \A s \in Slots :
        \A i \in 1..Len(hist[s].parsed) :
            IsEvent(hist[s].parsed[i], "error")
            => /\ \A j \in (i + 1)..Len(hist[s].parsed) :
                      ~Applies(hist[s].parsed[j])
               /\ Returned(s) /\ hist[s].outcome = "failed"

----------------------------------------------------------------------------
(* C13: a `done` event completes the send: no token, status, error or done *)
(* block dispatched after it changes the list, the streaming text, the     *)
(* status or the error.                                                    *)
C13_DoneCompletes ==
    [][ \A s \in Slots :
          ( /\ sess[s].pc = "read"
            /\ \E i \in 1..Len(hist[s].parsed) : IsEvent(hist[s].parsed[i], "done")
            /\ NewEvents(s) # << >> )
          => UNCHANGED << currentChatData, streamingMessage, agentStatus,
                          sendMessageError >> ]_vars

----------------------------------------------------------------------------
(* C14: whenever a send that passed the precondition check returns, by end *)
(* of stream, by a failure or by cancellation, the session resources are   *)
(* released: isStreaming and isMessageSending are false, the streaming     *)
(* text and the status are empty and the cancel handle is null.            *)
C14_ReleasedOnReturn ==
    [][ \A s \in Slots :
          Returns(s)
          => /\ hist'[s].outcome \in {"ended", "failed", "cancelled"}
             /\ Released' ]_vars

\* the network failed after part of the body had been dispatched
C14_Witness ==
    \E s \in Slots :
        /\ Returned(s) /\ hist[s].outcome = "failed"
        /\ hist[s].parsed # << >>
        /\ hist[s].toasts = << << "Failed to fetch" >> >>
        /\ Released

----------------------------------------------------------------------------
(* C15: when a send fails, the list loses exactly the messages whose id is *)
(* the temporary id of that send; every other message, other `temp-`       *)
(* entries included, stays, in the same order.                             *)
C15_RollbackById ==
    [][ \A s \in Slots :
          (Returns(s) /\ hist'[s].outcome = "failed")
          => currentChatData'.messages =
                 SelectSeq(Messages, LAMBDA m : m.id # sess[s].optimisticId) ]_vars

----------------------------------------------------------------------------
(* C16: of several `event: ` lines in one block the event parser honours   *)
(* the last one, and of several `data: ` lines the last one; earlier       *)
(* matching lines do not affect the produced event.  (As claimed: the      *)
(* first of each.)                                                         *)

EventLines(block) ==
    SelectSeq(Split(block, << NL >>), LAMBDA l : StartsWith(l, << EV >>))

DataLines(block) ==
    SelectSeq(Split(block, << NL >>),
              LAMBDA l : ~StartsWith(l, << EV >>) /\ StartsWith(l, << DA >>))

\* the event type and the payload taken from the given two lines
Taken(eventLine, dataLine) ==
    [eventType |-> IF eventLine = << >> THEN << >> ELSE Trim(Slice(eventLine, 1)),
     dataStr   |-> IF dataLine = << >> THEN << >> ELSE Slice(dataLine, 1)]

LastOf(lines)  == IF lines = << >> THEN << >> ELSE Last(lines)
FirstOf(lines) == IF lines = << >> THEN << >> ELSE Head(lines)

LastScan(block)  == Taken(LastOf(EventLines(block)), LastOf(DataLines(block)))
FirstScan(block) == Taken(FirstOf(EventLines(block)), FirstOf(DataLines(block)))

\* the scans that carry an event type and a payload
Kept(scans) ==
    SelectSeq(scans, LAMBDA p : p.eventType # << >> /\ p.dataStr # << >>)

\* the original statement: the first matching lines are honoured
C16_FirstLineWins ==
    \A s \in Slots :
        sess[s].pc = "read"
        => hist[s].parsed =
               Kept([i \in 1..Len(hist[s].handed) |-> FirstScan(hist[s].handed[i])])

\* the amended statement: the last matching lines are honoured
C16_LastLineWins ==
    \A s \in Slots :
        sess[s].pc = "read"
        => hist[s].parsed =
               Kept([i \in 1..Len(hist[s].handed) |-> LastScan(hist[s].handed[i])])

\* a block with the event lines token, status and the data lines of a token
\* and of a status was dispatched as a status event
C16_Witness ==
    \E s \in Slots :
        /\ sess[s].pc = "read"
        /\ Len(hist[s].handed) = 1
        /\ Len(EventLines(hist[s].handed[1])) = 2
        /\ Len(DataLines(hist[s].handed[1])) = 2
        /\ FirstScan(hist[s].handed[1]) # LastScan(hist[s].handed[1])
        /\ agentStatus = "thinking"
        /\ streamingMessage = << >>

----------------------------------------------------------------------------
(* C17: while a send is reading its stream, the streaming text is the      *)
(* concatenation, in arrival order, of the contents of the token events    *)
(* dispatched so far in this send, and the status is that of the latest    *)
(* status event (empty if none); status events leave the streaming text    *)
(* alone, token events leave the status and the message list alone.        *)

\* the status of the last status event among parsed[1..i]
RECURSIVE StatusUpTo(_, _)
StatusUpTo(parsed, i) ==
    IF i = 0 THEN ""
    ELSE IF IsEvent(parsed[i], "status")
    THEN (IF Has(Payload(parsed[i]), "status") THEN Payload(parsed[i]).status
          ELSE "undefined")
    ELSE StatusUpTo(parsed, i - 1)

LatestStatus(parsed) == StatusUpTo(parsed, Len(parsed))

AllOfType(events, type) ==
    /\ events # << >>
    /\ \A i \in 1..Len(events) : IsEvent(events[i], type)

C17_TextAndStatus ==
    [][ \A s \in Slots :
          sess'[s].pc = "read"
          => \A parsed \in {hist'[s].parsed} :
                /\ streamingMessage' = TokenText(parsed)
                /\ agentStatus' = LatestStatus(parsed)
                /\ AllOfType(NewEvents(s), "status")
                   => streamingMessage' = streamingMessage
                /\ AllOfType(NewEvents(s), "token")
                   => UNCHANGED << agentStatus, currentChatData >> ]_vars

\* a status event and two token events have been dispatched
C17_Witness ==
    \E s \in Slots :
        /\ sess[s].pc = "read"
        /\ Len(hist[s].parsed) = 3
        /\ IsEvent(hist[s].parsed[1], "status")
        /\ IsEvent(hist[s].parsed[2], "token")
        /\ IsEvent(hist[s].parsed[3], "token")
        /\ streamingMessage = << "Hi", " there" >>
        /\ agentStatus = "thinking"

----------------------------------------------------------------------------
(* C18: while a request is in flight the cancel handle is that request's   *)
(* own abort controller, and while none is in flight the handle is null,   *)
(* also when a send is started before an earlier one has reached its       *)
(* finally step.                                                           *)
C18_HandleIsOwn ==
    /\ \A s \in Slots : Active(s) => abortControllerRef = s
    /\ (\A s \in Slots : ~Active(s)) => abortControllerRef = 0

----------------------------------------------------------------------------
(* C19: at the end of the stream the text left in the buffer, a block not  *)
(* terminated by a blank line, is dropped: it is not dispatched, it        *)
(* changes neither the message list nor the error, it raises nothing.      *)
C19_ResidualDiscarded ==
    [][ \A s \in Slots :
          ( /\ sess[s].pc = "read" /\ sess[s].buffer # << >>
            /\ Returns(s) /\ hist'[s].outcome = "ended" )
          => /\ hist'[s].parsed = hist[s].parsed
             /\ hist'[s].warnings = hist[s].warnings
             /\ hist'[s].toasts = hist[s].toasts
             /\ UNCHANGED << currentChatData, sendMessageError >> ]_vars

\* the body was a token block and a done block without its blank line: the
\* send has ended with the token alone dispatched and the optimistic
\* message still in the list
C19_Witness ==
    \E s \in Slots :
        /\ Returned(s) /\ hist[s].outcome = "ended"
        /\ hist[s].parsed = << [eventType |-> << "token" >>,
                                dataStr |-> << ContentHi >>] >>
        /\ hist[s].warnings = 0
        /\ HasId(sess[s].optimisticId)
        /\ sendMessageError = NoError

----------------------------------------------------------------------------
(* C20: no step of a send removes, duplicates or reorders a persisted      *)
(* (non-`temp-`) message that was in the list: the persisted messages of   *)
(* the list before a step are a subsequence of those after it, and the     *)
(* persisted messages present when a send began are a subsequence of the   *)
(* list, each as often as it was, in every state from then on.             *)

Persisted(messages) == SelectSeq(messages, LAMBDA m : ~IsTemp(m))

\* a is a subsequence of b
RECURSIVE IsSubseq(_, _)
IsSubseq(a, b) ==
    IF a = << >> THEN TRUE
    ELSE IF b = << >> THEN FALSE
    ELSE IF Head(a) = Head(b) THEN IsSubseq(Tail(a), Tail(b))
    ELSE IsSubseq(a, Tail(b))

Count(m, messages) == Len(SelectSeq(messages, LAMBDA x : x = m))

====
